---- MODULE Spec2Model ----
(***************************************************************************)
(* Model of src/util/mod.rs of cargo-mobile: the path relativizer          *)
(* (common_root, relativize_path, relative_symlink), the into_result       *)
(* conversions of process outcomes, and the two-process pipe.              *)
(*                                                                         *)
(* A path is the sequence of its segments as written, with "/" as the      *)
(* first element when the path is absolute: "/a/./b" is                    *)
(* <<"/", "a", ".", "b">>.  std::path is modelled by what it does on that  *)
(* sequence (components() drops "." segments, keeps ".." segments).        *)
(***************************************************************************)
EXTENDS Naturals, Sequences, FiniteSets

VARIABLES
    abs_src,        \* relative_symlink / relativize_path: first argument
    abs_dest,       \* relative_symlink / relativize_path: second argument
    pc,             \* position of the path operation
    rel,            \* outcome of relativize_path
    ln_outcome,     \* io::Result<ExitStatus> of the `ln -sf` child
    link_result,    \* CommandResult<()> returned by relative_symlink
    ppc,            \* position of pipe()
    tx_outcome,     \* io::Result<Output> of tx_command.output()
    rx_spawn,       \* io::Result<Child> of rx_command.spawn()
    rx_state,       \* the second process: not started, running, or its ExitStatus
    rx_reader,      \* some process holds the read end of that stdin pipe open
    rx_stdin,       \* the bytes written so far into the second process's stdin
    rx_read,        \* how many of them the second process has consumed
    write_outcome,  \* io::Result<()> of write_all
    pipe_result     \* Result<(), PipeError> returned by pipe

pathVars == <<abs_src, abs_dest, pc, rel, ln_outcome, link_result>>
pipeVars == <<ppc, tx_outcome, rx_spawn, rx_state, rx_reader, rx_stdin, rx_read,
              write_outcome, pipe_result>>
vars == <<abs_src, abs_dest, pc, rel, ln_outcome, link_result,
          ppc, tx_outcome, rx_spawn, rx_state, rx_reader, rx_stdin, rx_read,
          write_outcome, pipe_result>>

---------------------------------------------------------------------------
(* Bounds *)

\* longest generated path, in segments after the root
MaxLen == 3
\* largest exit code the modelled children return
MaxExitCode == 2
\* longest captured stdout of the first process, in bytes
MaxOut == 3
\* capacity of the kernel pipe feeding the second process's stdin, in bytes
PipeCap == 2

---------------------------------------------------------------------------
(* Sequences *)

Front(s) == SubSeq(s, 1, Len(s) - 1)
Last(s) == s[Len(s)]
IsPrefix(p, s) == Len(p) <= Len(s) /\ SubSeq(s, 1, Len(p)) = p
SeqsUpTo(S, n) == UNION {[1..k -> S] : k \in 0..n}

RECURSIVE Repeat(_, _)
Repeat(x, n) == IF n = 0 THEN <<>> ELSE <<x>> \o Repeat(x, n - 1)

---------------------------------------------------------------------------
(* std::path on segment sequences *)

RootDir == "/"
ParentDir == ".."
CurDir == "."

\* Path::is_absolute (unix): the path has a root
is_absolute(p) == Len(p) > 0 /\ p[1] = RootDir

NotCurDir(s) == s # CurDir

\* Path::components: "." segments vanish, except a leading one of a relative path
Components(p) ==
    IF p = <<>> THEN <<>> ELSE <<p[1]>> \o SelectSeq(Tail(p), NotCurDir)

\* Components::as_path after trim_right: trailing "." segments are not part of it
RECURSIVE TrimRight(_)
TrimRight(p) ==
    IF Len(p) > 1 /\ Last(p) = CurDir THEN TrimRight(Front(p)) ELSE p

\* a starts_with that wants base to be strictly shorter than p
starts_with_strict(p, base) ==
    IsPrefix(Components(base), Components(p)) /\ Components(base) # Components(p)

\* Path::starts_with: whole components of base are a prefix of those of p
starts_with(p, base) == IsPrefix(Components(base), Components(p))

\* a parent that a path directly under the root does not have
has_parent_below_top(p) == LET t == TrimRight(p) IN Len(t) > 2

\* Path::parent: None at the root and at the empty path, else the path without
\* its last component
has_parent(p) == LET t == TrimRight(p) IN Len(t) > 0 /\ Last(t) # RootDir
parent(p) == TrimRight(Front(TrimRight(p)))

\* the path left after the first n components of p (Components::as_path of the
\* iterator that iter_after returns)
RECURSIVE SkipComponents(_, _, _)
SkipComponents(p, n, atStart) ==
    IF p = <<>> THEN <<>>
    ELSE IF p[1] = CurDir /\ ~atStart THEN SkipComponents(Tail(p), n, FALSE)
    ELSE IF n = 0 THEN p
    ELSE SkipComponents(Tail(p), n - 1, FALSE)

\* Path::strip_prefix: Err when base is no prefix, else the rest of p
strip_prefix(p, base) ==
    IF starts_with(p, base)
    THEN [tag |-> "Ok",
          val |-> TrimRight(SkipComponents(p, Len(Components(base)), TRUE))]
    ELSE [tag |-> "Err"]

\* a join that keeps only its argument
join_replacing(p, q) == q

\* PathBuf::push / Path::join: an absolute argument replaces the path
join(p, q) == IF is_absolute(q) THEN q ELSE p \o q

---------------------------------------------------------------------------
(* common_root and relativize_path *)

\* the loop of common_root: dest_root loses its last component until abs_src
\* starts with it; pop() returning false is the unreachable!() branch
RECURSIVE common_root_loop(_, _, _)
common_root_loop(src, dest_root, strips) ==
    IF starts_with(src, dest_root)
    THEN [found |-> TRUE, root |-> dest_root, strips |-> strips]
    ELSE IF ~has_parent(dest_root)
    THEN [found |-> FALSE, root |-> dest_root, strips |-> strips]
    ELSE common_root_loop(src, parent(dest_root), strips + 1)

common_root(src, dest) == common_root_loop(src, dest, 0)

Panic(why) == [status |-> why, rel_path |-> <<>>, root |-> <<>>, strips |-> 0]

\* a count that leaves out the last segment of the destination tail
up_segments_from_parent(relative_to) ==
    IF Len(Components(relative_to)) = 0 THEN 0
    ELSE Len(Components(relative_to)) - 1

\* relative_to.iter().count(): one ".." for every component of the
\* destination tail
up_segments(relative_to) == Len(Components(relative_to))

\* a relativize_path that counts the segments of the source tail for the ".."s
relativize_path_swapped(src, dest) ==
    IF ~is_absolute(src) \/ ~is_absolute(dest) THEN Panic("assert_failed")
    ELSE LET cr == common_root(src, dest) IN
         IF ~cr.found THEN Panic("unreachable")
         ELSE LET path == strip_prefix(src, cr.root)
                  relative_to == strip_prefix(dest, cr.root)
              IN [status |-> "ok",
                  rel_path |-> join(Repeat(ParentDir, up_segments(path.val)),
                                    path.val),
                  root |-> cr.root,
                  strips |-> cr.strips]

relativize_path(src, dest) ==
    IF ~is_absolute(src) \/ ~is_absolute(dest) THEN Panic("assert_failed")
    ELSE LET cr == common_root(src, dest) IN
         IF ~cr.found THEN Panic("unreachable")
         ELSE LET path == strip_prefix(src, cr.root)
                  relative_to == strip_prefix(dest, cr.root)
              IN IF path.tag # "Ok" \/ relative_to.tag # "Ok"
                 THEN Panic("unwrap_failed")
                 ELSE [status |-> "ok",
                       rel_path |-> join(Repeat(ParentDir,
                                                up_segments(relative_to.val)),
                                         path.val),
                       root |-> cr.root,
                       strips |-> cr.strips]

---------------------------------------------------------------------------
(* CommandError and the into_result conversions *)

None == [some |-> FALSE]
Some(n) == [some |-> TRUE, val |-> n]

Ok(v) == [tag |-> "Ok", val |-> v]
Err(e) == [tag |-> "Err", err |-> e]
Unit == <<>>

\* derive_more::From on CommandError: io::Error and Option<i32> each have
\* their own variant
UnableToSpawn(e) == [variant |-> "UnableToSpawn", io |-> e]
NonZeroExitStatus(c) == [variant |-> "NonZeroExitStatus", code |-> c]

\* ExitStatus (unix): the child exited with a code, or a signal ended it
Exited(n) == [how |-> "Exited", code |-> n]
Signaled == [how |-> "Signaled"]
ExitCodes == 0..MaxExitCode
ExitStatuses == {Exited(n) : n \in ExitCodes} \cup {Signaled}

\* ExitStatus::success and ExitStatus::code
success(st) == st.how = "Exited" /\ st.code = 0
code(st) == IF st.how = "Exited" THEN Some(st.code) ELSE None

\* impl IntoResult<(), ()> for bool
IntoResultBool(b) == IF b THEN Ok(Unit) ELSE Err(Unit)

\* an into_result that reads a missing exit code as zero
IntoResultExitStatus_code_or_zero(st) ==
    IF st.how = "Signaled" \/ st.code = 0
    THEN Ok(Unit)
    ELSE Err(NonZeroExitStatus(code(st)))

\* impl IntoResult<(), CommandError> for ExitStatus
IntoResultExitStatus(st) ==
    IF IntoResultBool(success(st)).tag = "Ok"
    THEN Ok(Unit)
    ELSE Err(NonZeroExitStatus(code(st)))

\* impl IntoResult<(), CommandError> for io::Result<ExitStatus>
IntoResultIoExitStatus(r) ==
    IF r.tag = "Err" THEN Err(UnableToSpawn(r.err))
    ELSE IntoResultExitStatus(r.val)

\* an into_result of a captured output that does not look at the exit status
IntoResultOutput_unchecked(r) ==
    IF r.tag = "Err" THEN Err(UnableToSpawn(r.err)) ELSE Ok(r.val)

\* impl IntoResult<Output, CommandError> for io::Result<Output>
IntoResultOutput(r) ==
    IF r.tag = "Err" THEN Err(UnableToSpawn(r.err))
    ELSE IF IntoResultExitStatus(r.val.status).tag = "Ok" THEN Ok(r.val)
    ELSE Err(IntoResultExitStatus(r.val.status).err)

\* impl IntoResult<Child, CommandError> for io::Result<Child>
IntoResultChild(r) ==
    IF r.tag = "Err" THEN Err(UnableToSpawn(r.err)) ELSE r

\* the io::Errors Command::spawn can give
SpawnErrors == {"NotFound", "PermissionDenied"}

\* what Command::status() can return
StatusOutcomes == {Err(e) : e \in SpawnErrors} \cup {Ok(st) : st \in ExitStatuses}

\* force_symlink: `ln -sf src dest`, its status through into_result
force_symlink(outcome) == IntoResultIoExitStatus(outcome)

---------------------------------------------------------------------------
(* The path operations as a state machine *)

Segs == {"a", "b", ParentDir, CurDir}

\* the paths the examples of the documentation use
ExamplePaths == {<<RootDir, "a", "b", "c">>, <<RootDir, "a", "x", "y">>,
                 <<RootDir, "a", "b">>, <<RootDir, "a", "b", "c", "d">>}

AbsPaths == {<<RootDir>> \o s : s \in SeqsUpTo(Segs, MaxLen)} \cup ExamplePaths

\* paths without a root, which the assertions of relativize_path reject
RelPaths == {<<>>, <<"a">>, <<"a", "b">>}

Paths == AbsPaths \cup RelPaths

NotRun == [tag |-> "NotRun"]

\* the second process of pipe before it is spawned, and while it runs
NotStarted == [how |-> "NotStarted"]
Running == [how |-> "Running"]

PipeIdle ==
    /\ ppc = "idle"
    /\ tx_outcome = NotRun
    /\ rx_spawn = NotRun
    /\ rx_state = NotStarted
    /\ rx_reader = FALSE
    /\ rx_stdin = <<>>
    /\ rx_read = 0
    /\ write_outcome = NotRun
    /\ pipe_result = NotRun

Init ==
    /\ abs_src \in Paths
    /\ abs_dest \in Paths
    /\ pc = "start"
    /\ rel = [status |-> "none"]
    /\ ln_outcome = NotRun
    /\ link_result = NotRun
    /\ PipeIdle

\* pub fn relativize_path, called on its own
RelativizePath ==
    /\ pc = "start"
    /\ rel' = relativize_path(abs_src, abs_dest)
    /\ pc' = IF rel'.status = "ok" THEN "relativized" ELSE "panicked"
    /\ UNCHANGED <<abs_src, abs_dest, ln_outcome, link_result>>
    /\ UNCHANGED pipeVars

\* pub fn relative_symlink: relativize_path, then force_symlink on the result
RelativeSymlink ==
    /\ pc = "start"
    /\ rel' = relativize_path(abs_src, abs_dest)
    /\ IF rel'.status = "ok"
       THEN \E outcome \in StatusOutcomes :
               /\ ln_outcome' = outcome
               /\ link_result' = force_symlink(outcome)
               /\ pc' = "linked"
       ELSE /\ pc' = "panicked"
            /\ UNCHANGED <<ln_outcome, link_result>>
    /\ UNCHANGED <<abs_src, abs_dest>>
    /\ UNCHANGED pipeVars

Next == RelativizePath \/ RelativeSymlink

Spec == Init /\ [][Next]_vars

---------------------------------------------------------------------------
(* pipe *)

Min(a, b) == IF a <= b THEN a ELSE b

Byte == {0, 1}

\* Output: the exit status and the captured stdout of a finished child
Outputs == [status : ExitStatuses, stdout : SeqsUpTo(Byte, MaxOut)]

\* what Command::output() can return
TxOutcomes == {Err(e) : e \in SpawnErrors} \cup {Ok(o) : o \in Outputs}

\* what Command::spawn() can return
Child == [stdin |-> "piped"]
RxOutcomes == {Err(e) : e \in SpawnErrors} \cup {Ok(Child)}

\* enum PipeError
TxCommandError(e) == [variant |-> "TxCommandError", err |-> e]
RxCommandError(e) == [variant |-> "RxCommandError", err |-> e]
PipeErrorIo(e) == [variant |-> "PipeError", io |-> e]

\* .map_err(PipeError::TxCommandError)
tx_stage(r) == IF r.tag = "Err" THEN Err(TxCommandError(r.err)) ELSE r

\* a second stage that reports under the first stage's variant
rx_stage_as_tx(r) == IF r.tag = "Err" THEN Err(TxCommandError(r.err)) ELSE r

\* .map_err(PipeError::RxCommandError)
rx_stage(r) == IF r.tag = "Err" THEN Err(RxCommandError(r.err)) ELSE r

\* .map_err(From::from): io::Error is the PipeError variant
write_stage(r) == IF r.tag = "Err" THEN Err(PipeErrorIo(r.err)) ELSE r

PathIdle ==
    /\ abs_src = <<RootDir>>
    /\ abs_dest = <<RootDir>>
    /\ pc = "idle"
    /\ rel = [status |-> "none"]
    /\ ln_outcome = NotRun
    /\ link_result = NotRun

InitPipe ==
    /\ PathIdle
    /\ ppc = "start"
    /\ tx_outcome = NotRun
    /\ rx_spawn = NotRun
    /\ rx_state = NotStarted
    /\ rx_reader = FALSE
    /\ rx_stdin = <<>>
    /\ rx_read = 0
    /\ write_outcome = NotRun
    /\ pipe_result = NotRun

\* tx_command.output().into_result().map_err(PipeError::TxCommandError)?
PipeRunFirst ==
    /\ ppc = "start"
    /\ \E outcome \in TxOutcomes :
          /\ tx_outcome' = outcome
          /\ LET r == tx_stage(IntoResultOutput(outcome)) IN
             IF r.tag = "Err"
             THEN pipe_result' = r /\ ppc' = "returned"
             ELSE pipe_result' = pipe_result /\ ppc' = "spawn_rx"
    /\ UNCHANGED <<rx_spawn, rx_state, rx_reader, rx_stdin, rx_read, write_outcome>>
    /\ UNCHANGED pathVars

\* rx_command.stdin(Stdio::piped()).spawn().into_result()
\*     .map_err(PipeError::RxCommandError)?
PipeSpawnSecond ==
    /\ ppc = "spawn_rx"
    /\ \E outcome \in RxOutcomes :
          /\ rx_spawn' = outcome
          /\ LET r == rx_stage(IntoResultChild(outcome)) IN
             IF r.tag = "Err"
             THEN /\ pipe_result' = r
                  /\ ppc' = "returned"
                  /\ rx_state' = rx_state
                  /\ rx_reader' = rx_reader
             ELSE /\ pipe_result' = pipe_result
                  /\ ppc' = "write"
                  /\ rx_state' = Running
                  /\ rx_reader' = TRUE
    /\ UNCHANGED <<tx_outcome, rx_stdin, rx_read, write_outcome>>
    /\ UNCHANGED pathVars

\* the bytes of tx_output.stdout that write_all has not yet written
Remaining ==
    SubSeq(tx_outcome.val.stdout, Len(rx_stdin) + 1, Len(tx_outcome.val.stdout))

\* room left in the pipe to the second process
Room == PipeCap - (Len(rx_stdin) - rx_read)

\* a single write() in place of write_all: whatever it wrote, pipe returns Ok
PipeWriteChunk_single_write ==
    /\ ppc = "write"
    /\ rx_reader
    /\ \E n \in 1..Min(Len(Remaining), Room) :
          rx_stdin' = rx_stdin \o SubSeq(Remaining, 1, n)
    /\ write_outcome' = Ok(Unit)
    /\ pipe_result' = Ok(Unit)
    /\ ppc' = "returned"
    /\ UNCHANGED <<tx_outcome, rx_spawn, rx_state, rx_reader, rx_read>>
    /\ UNCHANGED pathVars

\* write_all, one write(): while the read end of the pipe is open and the pipe
\* has room, it takes the next n bytes, n >= 1
PipeWriteChunk ==
    /\ ppc = "write"
    /\ rx_reader
    /\ \E n \in 1..Min(Len(Remaining), Room) :
          rx_stdin' = rx_stdin \o SubSeq(Remaining, 1, n)
    /\ UNCHANGED <<ppc, tx_outcome, rx_spawn, rx_state, rx_reader, rx_read,
                   write_outcome,
                   pipe_result>>
    /\ UNCHANGED pathVars

\* write_all, a write() that fails: nobody holds the read end any more
PipeWriteFail ==
    /\ ppc = "write"
    /\ ~rx_reader
    /\ Len(Remaining) > 0
    /\ write_outcome' = Err("BrokenPipe")
    /\ pipe_result' = write_stage(write_outcome')
    /\ ppc' = "returned"
    /\ UNCHANGED <<tx_outcome, rx_spawn, rx_state, rx_reader, rx_stdin, rx_read>>
    /\ UNCHANGED pathVars

\* a return that first waits for the second process and checks its status
PipeWriteDone_checking_rx ==
    /\ ppc = "write"
    /\ Len(Remaining) = 0
    /\ rx_state # Running
    /\ write_outcome' = Ok(Unit)
    /\ pipe_result' = rx_stage(IntoResultExitStatus(rx_state))
    /\ ppc' = "returned"
    /\ UNCHANGED <<tx_outcome, rx_spawn, rx_state, rx_reader, rx_stdin, rx_read>>
    /\ UNCHANGED pathVars

\* write_all has nothing left to write: Ok(()), and pipe returns it
PipeWriteDone ==
    /\ ppc = "write"
    /\ Len(Remaining) = 0
    /\ write_outcome' = Ok(Unit)
    /\ pipe_result' = write_stage(write_outcome')
    /\ ppc' = "returned"
    /\ UNCHANGED <<tx_outcome, rx_spawn, rx_state, rx_reader, rx_stdin, rx_read>>
    /\ UNCHANGED pathVars

\* a byte is read from the pipe, by the second process or by a descendant of
\* it that inherited the read end
RxRead ==
    /\ rx_reader
    /\ rx_read < Len(rx_stdin)
    /\ rx_read' = rx_read + 1
    /\ UNCHANGED <<ppc, tx_outcome, rx_spawn, rx_state, rx_reader, rx_stdin,
                   write_outcome, pipe_result>>
    /\ UNCHANGED pathVars

\* the last holder of the read end closes it: the second process closing its
\* stdin while it runs on, or a descendant that outlived it
RxCloseStdin ==
    /\ rx_reader
    /\ rx_reader' = FALSE
    /\ UNCHANGED <<ppc, tx_outcome, rx_spawn, rx_state, rx_stdin, rx_read,
                   write_outcome, pipe_result>>
    /\ UNCHANGED pathVars

\* the second process ends, during pipe or after it has returned; the read end
\* stays open when a descendant still holds it
RxExit ==
    /\ rx_state = Running
    /\ \E st \in ExitStatuses : rx_state' = st
    /\ \E inherited \in BOOLEAN : rx_reader' = (rx_reader /\ inherited)
    /\ UNCHANGED <<ppc, tx_outcome, rx_spawn, rx_stdin, rx_read, write_outcome,
                   pipe_result>>
    /\ UNCHANGED pathVars

NextPipe ==
    \/ PipeRunFirst
    \/ PipeSpawnSecond
    \/ PipeWriteChunk
    \/ PipeWriteFail
    \/ PipeWriteDone
    \/ RxRead
    \/ RxCloseStdin
    \/ RxExit

SpecPipe == InitPipe /\ [][NextPipe]_vars

---------------------------------------------------------------------------
(* Properties of the path operations *)

\* the segments of an absolute path after its root
Segments(p) == Tail(p)

\* p has only ordinary names as segments
Plain(p) == \A i \in 2..Len(p) : p[i] \notin {CurDir, ParentDir}

\* resolving a relative path from a directory: ".." removes the last segment,
\* any other segment is appended
RECURSIVE Resolve(_, _)
Resolve(dir, r) ==
    IF r = <<>> THEN dir
    ELSE IF r[1] = ParentDir
    THEN Resolve(IF dir = <<>> THEN <<>> ELSE Front(dir), Tail(r))
    ELSE Resolve(dir \o <<r[1]>>, Tail(r))

\* the directory that holds p
ParentOf(p) == IF Segments(p) = <<>> THEN <<>> ELSE Front(Segments(p))

\* length of the longest prefix two sequences share
CommonLen(s, d) ==
    CHOOSE n \in 0..Len(s) :
        /\ n <= Len(d)
        /\ SubSeq(s, 1, n) = SubSeq(d, 1, n)
        /\ \A m \in (n + 1)..Len(s) :
              m <= Len(d) => SubSeq(s, 1, m) # SubSeq(d, 1, m)

Relativized == pc \in {"relativized", "linked"}

\* C1 as stated, read on absolute paths made of ordinary names: resolving
\* relativize_path(source, dest) from the parent directory of dest gives source
C1_RoundTripFromParent ==
    (Relativized /\ Plain(abs_src) /\ Plain(abs_dest))
        => Resolve(ParentOf(abs_dest), rel.rel_path) = Segments(abs_src)

\* C1 amended: for absolute paths made of ordinary names, resolving
\* relativize_path(source, dest) from dest itself gives source
C1_RoundTripFromDest ==
    (Relativized /\ Plain(abs_src) /\ Plain(abs_dest))
        => Resolve(Segments(abs_dest), rel.rel_path) = Segments(abs_src)

C1_Witness ==
    /\ Relativized
    /\ abs_src = <<RootDir, "a", "b", "c">>
    /\ abs_dest = <<RootDir, "a", "x", "y">>
    /\ Resolve(Segments(abs_dest), rel.rel_path) = Segments(abs_src)
    /\ Resolve(ParentOf(abs_dest), rel.rel_path) # Segments(abs_src)

\* C2: the result is k ".." segments followed by the segments of source beyond
\* the longest prefix source and dest share, k being the number of segments of
\* dest beyond that prefix; /a/b/c relative to /a/x/y is ../../b/c
C2_UpThenDown ==
    (pc # "start" /\ is_absolute(abs_src) /\ is_absolute(abs_dest))
        => LET s == Components(abs_src)
               d == Components(abs_dest)
               n == CommonLen(s, d)
           IN /\ rel.status = "ok"
              /\ Components(rel.root) = SubSeq(s, 1, n)
              /\ Components(rel.rel_path)
                   = Repeat(ParentDir, Len(d) - n) \o SubSeq(s, n + 1, Len(s))
              /\ (abs_src = <<RootDir, "a", "b", "c">>
                    /\ abs_dest = <<RootDir, "a", "x", "y">>)
                   => rel.rel_path = <<ParentDir, ParentDir, "b", "c">>

C2_Witness ==
    /\ Relativized
    /\ abs_src = <<RootDir, "a", "b", "c">>
    /\ abs_dest = <<RootDir, "a", "x", "y">>
    /\ rel.rel_path = <<ParentDir, ParentDir, "b", "c">>

\* C3 as stated: /a/b relative to /a/b/c/d has common root /a and is ../../../b
C3_AncestorAsStated ==
    (Relativized /\ abs_src = <<RootDir, "a", "b">>
                 /\ abs_dest = <<RootDir, "a", "b", "c", "d">>)
        => /\ rel.root = <<RootDir, "a">>
           /\ rel.rel_path = <<ParentDir, ParentDir, ParentDir, "b">>

\* C3 amended: when source is a proper ancestor of dest the common root is
\* source itself, the source tail is empty and the result is one ".." for
\* each segment of dest below source; /a/b relative to /a/b/c/d is ../..
C3_AncestorIsRoot ==
    (Relativized /\ Components(abs_src) # Components(abs_dest)
                 /\ IsPrefix(Components(abs_src), Components(abs_dest)))
        => /\ Components(rel.root) = Components(abs_src)
           /\ rel.rel_path
                = Repeat(ParentDir, Len(Components(abs_dest)) - Len(Components(abs_src)))
           /\ (abs_src = <<RootDir, "a", "b">>
                 /\ abs_dest = <<RootDir, "a", "b", "c", "d">>)
                => (rel.root = <<RootDir, "a", "b">>
                    /\ rel.rel_path = <<ParentDir, ParentDir>>)

C3_Witness ==
    /\ Relativized
    /\ abs_src = <<RootDir, "a", "b">>
    /\ abs_dest = <<RootDir, "a", "b", "c", "d">>
    /\ rel.rel_path = <<ParentDir, ParentDir>>

\* C4: into_result of an exit status is Ok(()) exactly for exit code 0,
\* Err(NonZeroExitStatus(Some(n))) for a nonzero code n,
\* Err(NonZeroExitStatus(None)) for a signal, and never UnableToSpawn
C4_ExitStatusIntoResult ==
    (pc = "linked" /\ ln_outcome.tag = "Ok")
        => LET st == ln_outcome.val IN
           /\ (link_result = Ok(Unit)) <=> (st.how = "Exited" /\ st.code = 0)
           /\ \A n \in ExitCodes \ {0} :
                 st = Exited(n) => link_result = Err(NonZeroExitStatus(Some(n)))
           /\ st = Signaled => link_result = Err(NonZeroExitStatus(None))
           /\ link_result.tag = "Err" => link_result.err.variant # "UnableToSpawn"

C4_Witness ==
    /\ pc = "linked"
    /\ ln_outcome = Ok(Signaled)
    /\ link_result = Err(NonZeroExitStatus(None))

\* C9: for absolute paths the common-root search strips at most as many
\* segments as dest has, returns a prefix of both paths, and never takes the
\* unreachable!() branch
C9_CommonRootFound ==
    (pc # "start" /\ is_absolute(abs_src) /\ is_absolute(abs_dest))
        => /\ rel.status = "ok"
           /\ rel.strips <= Len(Components(abs_dest)) - 1
           /\ starts_with(abs_src, rel.root)
           /\ starts_with(abs_dest, rel.root)
           /\ IsPrefix(Components(rel.root), Components(abs_src))
           /\ IsPrefix(Components(rel.root), Components(abs_dest))

C9_Witness ==
    /\ Relativized
    /\ rel.root = <<RootDir>>
    /\ rel.strips = Len(Components(abs_dest)) - 1
    /\ rel.strips >= 2

\* C10: for absolute paths made of ordinary names, the number of ".." segments
\* is the depth of dest below the common root, and resolving the result from
\* dest itself gives source
C10_WalksUpFromDest ==
    (Relativized /\ Plain(abs_src) /\ Plain(abs_dest))
        => LET ups == SelectSeq(rel.rel_path, LAMBDA x : x = ParentDir) IN
           /\ Len(ups) = Len(Components(abs_dest)) - Len(Components(rel.root))
           /\ SubSeq(rel.rel_path, 1, Len(ups)) = ups
           /\ Resolve(Segments(abs_dest), rel.rel_path) = Segments(abs_src)

C10_Witness ==
    /\ Relativized
    /\ abs_src = <<RootDir, "a", "b">>
    /\ abs_dest = <<RootDir, "b", "a", "b">>
    /\ rel.rel_path = <<ParentDir, ParentDir, ParentDir, "a", "b">>

---------------------------------------------------------------------------
(* Properties of pipe *)

TxSucceeded == tx_outcome.tag = "Ok" /\ tx_outcome.val.status = Exited(0)
TxFailed == tx_outcome # NotRun /\ ~TxSucceeded

\* the CommandError a failed first stage stands for
TxError ==
    IF tx_outcome.tag = "Err" THEN UnableToSpawn(tx_outcome.err)
    ELSE IF tx_outcome.val.status = Signaled THEN NonZeroExitStatus(None)
    ELSE NonZeroExitStatus(Some(tx_outcome.val.status.code))

\* C5: the second process is spawned only after the first has exited with
\* status zero; when first fails to spawn, exits nonzero or is killed, pipe
\* returns TxCommandError and second is never spawned
C5_SecondOnlyAfterFirstSucceeded ==
    /\ (rx_spawn # NotRun \/ rx_state # NotStarted) => TxSucceeded
    /\ TxFailed => /\ ppc = "returned"
                    /\ pipe_result = Err(TxCommandError(TxError))
                    /\ rx_spawn = NotRun
                    /\ rx_state = NotStarted
                    /\ ~rx_reader
                    /\ rx_stdin = <<>>

C5_Witness ==
    /\ ppc = "returned"
    /\ tx_outcome.tag = "Ok"
    /\ tx_outcome.val.status = Exited(1)
    /\ pipe_result = Err(TxCommandError(NonZeroExitStatus(Some(1))))
    /\ rx_spawn = NotRun

\* C6: each failure is returned under the variant of its own stage, and
\* Ok(()) only when no stage failed
C6_FailureTaggedByStage ==
    ppc = "returned" =>
        /\ pipe_result.tag \in {"Ok", "Err"}
        /\ TxFailed <=> (pipe_result.tag = "Err"
                          /\ pipe_result.err.variant = "TxCommandError")
        /\ TxFailed => pipe_result = Err(TxCommandError(TxError))
        /\ rx_spawn.tag = "Err" <=> (pipe_result.tag = "Err"
                                     /\ pipe_result.err.variant = "RxCommandError")
        /\ rx_spawn.tag = "Err"
             => (TxSucceeded
                 /\ pipe_result = Err(RxCommandError(UnableToSpawn(rx_spawn.err))))
        /\ write_outcome.tag = "Err" <=> (pipe_result.tag = "Err"
                                          /\ pipe_result.err.variant = "PipeError")
        /\ write_outcome.tag = "Err"
             => (TxSucceeded /\ rx_spawn.tag = "Ok"
                 /\ pipe_result = Err(PipeErrorIo(write_outcome.err)))
        /\ pipe_result = Ok(Unit)
             <=> (TxSucceeded /\ rx_spawn.tag = "Ok" /\ write_outcome = Ok(Unit))

C6_Witness ==
    /\ ppc = "returned"
    /\ TxSucceeded
    /\ rx_spawn = Err("NotFound")
    /\ pipe_result = Err(RxCommandError(UnableToSpawn("NotFound")))

\* C7 as stated: once both stages have started, second's stdin has received
\* all of first's stdout
C7_AllBytesOnceBothStarted ==
    (ppc = "returned" /\ TxSucceeded /\ rx_spawn.tag = "Ok")
        => rx_stdin = tx_outcome.val.stdout

\* C7 amended: when pipe returns Ok(()), second's stdin has received exactly
\* first's stdout; when the write fails it has received a prefix of it
C7_AllBytesWhenOk ==
    /\ pipe_result = Ok(Unit) => rx_stdin = tx_outcome.val.stdout
    /\ rx_spawn.tag = "Ok" => IsPrefix(rx_stdin, tx_outcome.val.stdout)
    /\ rx_read <= Len(rx_stdin)

C7_Witness ==
    /\ pipe_result = Ok(Unit)
    /\ Len(tx_outcome.val.stdout) >= 3
    /\ rx_stdin = tx_outcome.val.stdout
    /\ rx_stdin[1] # rx_stdin[2]

\* C8: once the write has succeeded pipe returns Ok(()), whatever the second
\* process does: still running, exited nonzero or killed by a signal
C8_SecondExitNotChecked ==
    write_outcome = Ok(Unit) => (ppc = "returned" /\ pipe_result = Ok(Unit))

C8_Witness ==
    /\ ppc = "returned"
    /\ pipe_result = Ok(Unit)
    /\ rx_state = Exited(1)

====
